---- MODULE Spec2Model ----
(***************************************************************************)
(* The bounded multi-turn tool-calling loop of the marketing strategy      *)
(* agent (generate_marketing_strategy), its tool executor                  *)
(* (MarketingStrategyToolExecutor) and the job record they drive.          *)
(*                                                                         *)
(* One run of generate_marketing_strategy is modelled.  The model          *)
(* provider, the file system and the job record store are the              *)
(* environment: the provider's response is chosen with \E from a bounded   *)
(* set, and a file-system or record-store exception is chosen with \E      *)
(* among the places of the handler where it can be raised.                 *)
(***************************************************************************)
EXTENDS Integers, Sequences, FiniteSets, TLC

\* ------------------------------------------------------------------ bounds

\* for iteration in range(1, self.MAX_ITERATIONS + 1)
MAX_ITERATIONS == 10

\* Most blocks (tool calls and text) the provider puts in one response.
MaxBlocks == 2
\* Most moves of the provider in one run: a move is a tool call, or turning
\* to answers without tool calls.
MaxToolCalls == 4
\* Most entries of a list in a tool input of the single-purpose agents
\* (variations of a plan, components of a write_component_code call, elements
\* of a wireframe).
MaxComponents == 2

\* ------------------------------------------------------------- identifiers

Projects == {"p1", "p2"}
project_id == "p1"
job_id == "j1"
source_id == "s1"

PLAN_TOOL == "plan_marketing_strategy"
WRITE_TOOL == "write_marketing_section"
UnknownTools == {"search_web"}

DefaultTitle == "Marketing Strategy Document"
PlannedTitle == "Launch Plan"

\* Numbers of sections a plan may list.
PlanSizes == {1, 3}

\* section_number values the provider may claim (the spec's example uses 5).
ClaimedSectionNumbers == {1, 5}

\* ---------------------------------------------------------------- helpers

RECURSIVE Flatten(_)
Flatten(ss) == IF ss = <<>> THEN <<>> ELSE Head(ss) \o Flatten(Tail(ss))

\* All sequences over S of length lo..hi.
SeqsOf(S, lo, hi) == UNION {[1..n -> S] : n \in lo..hi}

\* --------------------------------------------------------------- job record

\* studio_index_service.update_marketing_strategy_job(project, job, **fields):
\* partial-field merge, the fields not named keep their value.
update_marketing_strategy_job(rec, fields) ==
    [k \in DOMAIN rec |-> IF k \in DOMAIN fields THEN fields[k] ELSE rec[k]]

NoUrl == <<>>
\* f"/api/v1/projects/{project_id}/studio/marketing-strategies/{job_id}/preview"
PreviewUrl(p, j) == <<"/api/v1/projects/", p, "/studio/marketing-strategies/", j, "/preview">>
\* f"/api/v1/projects/{project_id}/studio/marketing-strategies/{job_id}/download"
DownloadUrl(p, j) == <<"/api/v1/projects/", p, "/studio/marketing-strategies/", j, "/download">>
\* f"{job_id}.md"
MarkdownFilename(j) == <<j, ".md">>

\* The record the caller created before the run.
QueuedJob ==
    [status |-> "queued", started_at |-> "none", status_message |-> <<"queued">>,
     document_title |-> "none", total_sections |-> 0, planned_sections |-> <<>>,
     sections_written |-> 0, current_section |-> "none", markdown_file |-> <<>>,
     preview_url |-> NoUrl, download_url |-> NoUrl,
     iterations |-> 0, input_tokens |-> 0, output_tokens |-> 0,
     error_message |-> <<>>, completed_at |-> "none"]

\* job.get("document_title", default) if job else default
DocumentTitle(job, default) ==
    IF job.document_title = "none" THEN default ELSE job.document_title

\* ----------------------------------------------------------------- artifact

\* The artifact {job_id}.md is a sequence of chunks; <<>> is no file yet
\* (open(.., "a") creates it).  One header chunk stands for the three header
\* writes: "# {document_title}", the "*Generated on ...*" line and the rule.
HeaderChunk(title) == [kind |-> "header", text |-> title]
ContentChunk(md) == [kind |-> "content", text |-> md]
\* f.write("\n\n"), written by both branches
Separator == [kind |-> "sep", text |-> "\n\n"]

\* open(file_path, "w"): header, markdown_content, separator replace the file
WriteFile(file, title, md) == <<HeaderChunk(title), ContentChunk(md), Separator>>
\* open(file_path, "a"): markdown_content, separator are added at the end
AppendFile(file, md) == file \o <<ContentChunk(md), Separator>>

\* ------------------------------------------------------------- tool inputs

NoInput ==
    [document_title |-> "none", sections |-> <<>>, section_number |-> 0,
     operation |-> "none", is_last_section |-> FALSE, section_title |-> "none",
     markdown_content |-> "none"]

\* tool_input.get("operation", "append")
Operation(tool_input) ==
    IF tool_input.operation = "none" THEN "append" ELSE tool_input.operation

\* ------------------------------------------------------------ tool handlers

\* Mutant: a plan starts the progress count again.
HandlePlanResetsProgress(job, tool_input) ==
    LET n == Len(tool_input.sections) IN
    [job |-> update_marketing_strategy_job(job,
                [document_title |-> tool_input.document_title,
                 planned_sections |-> tool_input.sections,
                 total_sections |-> n,
                 sections_written |-> 0,
                 status_message |-> <<"Planned sections, starting to write", n>>]),
     message |-> [kind |-> "plan_saved", document |-> tool_input.document_title,
                  planned |-> n]]

\* _handle_plan: stores the plan in the job record, returns the confirmation.
handle_plan(job, tool_input) ==
    LET n == Len(tool_input.sections) IN
    [job |-> update_marketing_strategy_job(job,
                [document_title |-> tool_input.document_title,
                 planned_sections |-> tool_input.sections,
                 total_sections |-> n,
                 status_message |-> <<"Planned sections, starting to write", n>>]),
     message |-> [kind |-> "plan_saved", document |-> tool_input.document_title,
                  planned |-> n]]

\* Mutant: the provider's section_number is trusted.
TrustedSectionNumber(tool_input, current_sections_written) ==
    tool_input.section_number

\* actual_section_number = current_sections_written + 1
ActualSectionNumber(tool_input, current_sections_written) ==
    current_sections_written + 1

\* The file after the "write or append content" branch of _handle_write_section.
WriteOrAppend(file, job, tool_input) ==
    IF Operation(tool_input) = "write"
    THEN WriteFile(file, DocumentTitle(job, DefaultTitle), tool_input.markdown_content)
    ELSE AppendFile(file, tool_input.markdown_content)

\* Mutant: every written section marks the job ready.
RecordSectionMarksReady(jid, job, tool_input, actual_section_number) ==
    update_marketing_strategy_job(job,
        [status |-> "ready",
         sections_written |-> actual_section_number,
         current_section |-> tool_input.section_title,
         markdown_file |-> MarkdownFilename(jid)])

\* The record update of _handle_write_section (after the file was written).
RecordSection(jid, job, tool_input, actual_section_number) ==
    update_marketing_strategy_job(job,
        [sections_written |-> actual_section_number,
         current_section |-> tool_input.section_title,
         markdown_file |-> MarkdownFilename(jid),
         status_message |-> <<"Writing section", actual_section_number,
                              job.total_sections, tool_input.section_title>>])

\* result_msg of _handle_write_section
SectionMessage(job, tool_input, actual_section_number) ==
    [kind |-> "section_written", section |-> actual_section_number,
     title |-> tool_input.section_title,
     complete |-> tool_input.is_last_section,
     progress |-> (~tool_input.is_last_section /\ job.total_sections > 0),
     total |-> job.total_sections,
     remaining |-> job.total_sections - actual_section_number]

\* error_msg of the except branch of _handle_write_section
SectionError(actual_section_number) ==
    [kind |-> "section_error", section |-> actual_section_number]

\* What the except branch of _handle_write_section returns:
\* (error_msg, False, None).
WriteSectionFailed(job, file, actual_section_number) ==
    [job |-> job, file |-> file, message |-> SectionError(actual_section_number),
     is_complete |-> FALSE, file_path |-> <<>>, raised |-> TRUE]

\* _handle_write_section.  fail is where the environment raises:
\*   "fs"     before the file is touched (get_studio_dir, makedirs, the record
\*            read or open), "record" in the record update after the file was
\*            written, anything else: nowhere.
handle_write_section(jid, job, file, tool_input, current_sections_written, fail) ==
    LET actual_section_number ==
            ActualSectionNumber(tool_input, current_sections_written)
        written == WriteOrAppend(file, job, tool_input)
    IN  IF fail = "fs" THEN WriteSectionFailed(job, file, actual_section_number)
        ELSE IF fail = "record"
        THEN WriteSectionFailed(job, written, actual_section_number)
        ELSE [job |-> RecordSection(jid, job, tool_input, actual_section_number),
              file |-> written,
              message |-> SectionMessage(job, tool_input, actual_section_number),
              is_complete |-> tool_input.is_last_section,
              file_path |-> MarkdownFilename(jid),
              raised |-> FALSE]

\* Mutant: the download reference is forgotten.
MarkReadyNoDownload(jid, job, iterations, input_tokens, output_tokens) ==
    update_marketing_strategy_job(job,
        [status |-> "ready",
         preview_url |-> PreviewUrl(project_id, jid),
         iterations |-> iterations,
         input_tokens |-> input_tokens,
         output_tokens |-> output_tokens,
         completed_at |-> "now"])

\* The record update of the try branch of _finalize.
MarkReady(jid, job, iterations, input_tokens, output_tokens) ==
    update_marketing_strategy_job(job,
        [status |-> "ready",
         status_message |-> <<"Marketing strategy generated successfully!">>,
         markdown_file |-> MarkdownFilename(jid),
         preview_url |-> PreviewUrl(project_id, jid),
         download_url |-> DownloadUrl(project_id, jid),
         iterations |-> iterations,
         input_tokens |-> input_tokens,
         output_tokens |-> output_tokens,
         completed_at |-> "now"])

\* Mutant: the except branch of _finalize leaves the record alone.
MarkFinalizeErrorSkipped(job) == job

\* The record update of the except branch of _finalize.
MarkFinalizeError(job) ==
    update_marketing_strategy_job(job,
        [status |-> "error", error_message |-> <<"Error finalizing marketing strategy">>])

\* _finalize.  fail = "finalize": the record read or the record update of the
\* try branch raises.
finalize(jid, job, sections, iterations, input_tokens, output_tokens, fail) ==
    IF fail = "finalize"
    THEN [job |-> MarkFinalizeError(job),
          result |-> [success |-> FALSE,
                      error_message |-> <<"Error finalizing marketing strategy">>,
                      iterations |-> iterations,
                      usage |-> [input_tokens |-> input_tokens,
                                 output_tokens |-> output_tokens]]]
    ELSE [job |-> MarkReady(jid, job, iterations, input_tokens, output_tokens),
          result |-> [success |-> TRUE,
                      job_id |-> jid,
                      document_title |-> DocumentTitle(job, "Marketing Strategy"),
                      markdown_file |-> MarkdownFilename(jid),
                      preview_url |-> PreviewUrl(project_id, jid),
                      download_url |-> DownloadUrl(project_id, jid),
                      sections_written |-> sections,
                      iterations |-> iterations,
                      usage |-> [input_tokens |-> input_tokens,
                                 output_tokens |-> output_tokens]]]

\* Mutant: the message does not say which tool was unknown.
UnknownToolAnonymous(tool_name) ==
    [kind |-> "unknown_tool", text |-> "Unknown tool: ", tool |-> "none"]

\* The message of the unknown-tool branch: f"Unknown tool: {tool_name}"
UnknownToolMessage(tool_name) == [kind |-> "unknown_tool", text |-> "Unknown tool: ", tool |-> tool_name]

\* is_complete as execute_tool reads it from _handle_write_section's result
IsComplete(written) == written.is_complete

\* execute_tool: (result, is_termination), with the job record and the
\* artifact as the handlers leave them.
execute_tool(tool_name, tool_input, context, job, file, fail) ==
    IF tool_name = PLAN_TOOL
    THEN LET planned == handle_plan(job, tool_input) IN
         [result |-> [success |-> TRUE, message |-> planned.message],
          is_termination |-> FALSE, job |-> planned.job, file |-> file]
    ELSE IF tool_name = WRITE_TOOL
    THEN LET written == handle_write_section(context.job_id, job, file, tool_input,
                                             context.sections_written, fail)
         IN  IF IsComplete(written)
             THEN LET final == finalize(context.job_id, written.job,
                                        context.sections_written + 1,
                                        context.iterations, context.input_tokens,
                                        context.output_tokens, fail)
                  IN  [result |-> final.result, is_termination |-> TRUE,
                       job |-> final.job, file |-> written.file]
             ELSE [result |-> [success |-> TRUE, message |-> written.message,
                               file_path |-> written.file_path],
                   is_termination |-> FALSE, job |-> written.job,
                   file |-> written.file]
    ELSE [result |-> [success |-> FALSE, message |-> UnknownToolMessage(tool_name)],
          is_termination |-> FALSE, job |-> job, file |-> file]

\* ---------------------------------------------------------- content blocks

TextBlock == [type |-> "text", name |-> "none", id |-> <<0, 0>>, input |-> NoInput]
ToolUse(name, id, input) == [type |-> "tool_use", name |-> name, id |-> id, input |-> input]

\* The payload of the n-th write_marketing_section call of a run: the payloads
\* of one run are pairwise distinct, so their order in the artifact shows.
PayloadNames == <<"alpha", "beta", "gamma", "delta", "epsilon", "zeta", "eta", "theta">>

PlanInput(n) ==
    [NoInput EXCEPT !.document_title = PlannedTitle, !.sections = [i \in 1..n |-> i]]
WriteInput(op, num, last, n) ==
    [NoInput EXCEPT !.operation = op, !.section_number = num,
                    !.is_last_section = last, !.section_title = PayloadNames[n],
                    !.markdown_content = PayloadNames[n]]

\* What the provider can put in the only block of a response, before ids and
\* payloads are given.
Templates ==
    {[tool |-> "text", input |-> NoInput]}
    \cup {[tool |-> PLAN_TOOL, input |-> PlanInput(n)] : n \in PlanSizes}
    \cup {[tool |-> WRITE_TOOL, input |-> WriteInput(op, num, last, 1)] :
            op \in {"write", "append"}, num \in ClaimedSectionNumbers, last \in BOOLEAN}
    \cup {[tool |-> u, input |-> NoInput] : u \in UnknownTools}

\* What it can put in a block of a response of several blocks.
MultiTemplates ==
    {t \in Templates :
        /\ t.tool # PLAN_TOOL
        /\ t.tool = WRITE_TOOL => t.input.operation = "append" /\ t.input.section_number = 5}

IsToolTemplate(t) == t.tool # "text"

\* Number of tool calls in a sequence of templates, and of calls of tool.
ToolsIn(ts) == Cardinality({k \in DOMAIN ts : IsToolTemplate(ts[k])})
WritesIn(ts) == Cardinality({k \in DOMAIN ts : ts[k].tool = WRITE_TOOL})

\* Number of tool_use blocks in the assistant turns of the transcript that
\* satisfy P, and number of assistant turns of more than one block.
RECURSIVE CallsSoFar(_, _)
CallsSoFar(msgs, tools) ==
    IF msgs = <<>> THEN 0
    ELSE (IF Head(msgs).role = "assistant"
          THEN Cardinality({k \in DOMAIN Head(msgs).content :
                              /\ Head(msgs).content[k].type = "tool_use"
                              /\ Head(msgs).content[k].name \in tools})
          ELSE 0)
         + CallsSoFar(Tail(msgs), tools)

AllTools == {PLAN_TOOL, WRITE_TOOL} \cup UnknownTools

RECURSIVE MultiSoFar(_)
MultiSoFar(msgs) ==
    IF msgs = <<>> THEN 0
    ELSE (IF Head(msgs).role = "assistant" /\ Len(Head(msgs).content) > 1 THEN 1 ELSE 0)
         + MultiSoFar(Tail(msgs))

\* The content blocks of a response made of the templates ts, in iteration it,
\* when written write calls were made before it.
BlocksOf(ts, it, written) ==
    [k \in DOMAIN ts |->
        IF ts[k].tool = "text" THEN TextBlock
        ELSE IF ts[k].tool = WRITE_TOOL
        THEN ToolUse(WRITE_TOOL, <<it, k>>,
                 [ts[k].input EXCEPT
                    !.section_title = PayloadNames[written + WritesIn(SubSeq(ts, 1, k))],
                    !.markdown_content = PayloadNames[written + WritesIn(SubSeq(ts, 1, k))]])
        ELSE ToolUse(ts[k].tool, <<it, k>>, ts[k].input)]

\* The responses the provider may give to the transcript msgs in iteration it.
\* A provider that answered without any tool call keeps doing so (its last
\* turn is then the last turn of the transcript), turning to that takes one
\* of its MaxToolCalls moves, and a response without a tool call is one text
\* block; one response of a run carries several blocks; the other limits are
\* the bounds above.
Responses(msgs, it) ==
    LET quiet == msgs[Len(msgs)].role = "assistant"
        written == CallsSoFar(msgs, {WRITE_TOOL})
        ok(ts) ==
            /\ quiet => ToolsIn(ts) = 0
            /\ (~quiet /\ ToolsIn(ts) = 0) => CallsSoFar(msgs, AllTools) < MaxToolCalls
            /\ ToolsIn(ts) = 0 => Len(ts) = 1
            /\ CallsSoFar(msgs, AllTools) + ToolsIn(ts) <= MaxToolCalls
        single == {ts \in SeqsOf(Templates, 1, 1) : ok(ts)}
        multi == IF MultiSoFar(msgs) = 0
                 THEN {ts \in SeqsOf(MultiTemplates, 2, MaxBlocks) : ok(ts)}
                 ELSE {}
    IN  {BlocksOf(ts, it, written) : ts \in single \cup multi}

\* usage of a response: the provider bills the turns it was sent and the
\* blocks it returned.
Usage(msgs, blocks) == [input_tokens |-> Len(msgs), output_tokens |-> Len(blocks) + 1]

\* claude_parsing_utils.serialize_content_blocks: one entry per block, in the
\* order received.  The transcript keeps type, name and id of a block; its
\* input is opaque to the loop and is left out.
serialize_content_blocks(blocks) ==
    [k \in DOMAIN blocks |->
        [type |-> blocks[k].type, name |-> blocks[k].name, id |-> blocks[k].id]]

\* ------------------------------------------------------------ orchestrator

\* Mutant: the context carries no token totals.
BuildContextNoUsage(jid, sections, it, input_tokens, output_tokens) ==
    [project_id |-> project_id, job_id |-> jid, source_id |-> source_id,
     sections_written |-> sections, iterations |-> it,
     input_tokens |-> 0, output_tokens |-> 0]

\* context = {...} built for every tool_use block
BuildContext(jid, sections, it, input_tokens, output_tokens) ==
    [project_id |-> project_id, job_id |-> jid, source_id |-> source_id,
     sections_written |-> sections, iterations |-> it,
     input_tokens |-> input_tokens, output_tokens |-> output_tokens]

\* Mutant: the counter is never advanced.
TrackSectionsNever(tool_name, sections) == sections

\* Mutant: a plan counts as a written section too.
TrackPlansToo(tool_name, sections) ==
    IF tool_name \in {WRITE_TOOL, PLAN_TOOL} THEN sections + 1 ELSE sections

\* Mutant: every tool call counts as a written section.
TrackEveryTool(tool_name, sections) == sections + 1

\* if tool_name == "write_marketing_section": sections_written += 1
TrackSections(tool_name, sections) ==
    IF tool_name = WRITE_TOOL THEN sections + 1 ELSE sections

\* {"type": "tool_result", "tool_use_id": tool_id,
\*  "content": result.get("message", str(result))}
ToolResult(tool_id, result) ==
    [type |-> "tool_result", tool_use_id |-> tool_id,
     content |-> IF "message" \in DOMAIN result THEN result.message
                 ELSE [kind |-> "str", success |-> result.success]]

\* Mutant: the run starts without touching the record.
MarkProcessingSkipped(job) == job

\* The update of the job record at the start of the run.
MarkProcessing(job) ==
    update_marketing_strategy_job(job,
        [status |-> "processing",
         status_message |-> <<"Starting marketing strategy generation...">>,
         started_at |-> "now"])

\* error_result of the max-iterations exit
MaxIterationsResult(sections, input_tokens, output_tokens) ==
    [success |-> FALSE,
     error_message |-> <<"Agent reached maximum iterations", MAX_ITERATIONS>>,
     iterations |-> MAX_ITERATIONS,
     sections_written |-> sections,
     usage |-> [input_tokens |-> input_tokens, output_tokens |-> output_tokens]]

\* The update of the job record at the max-iterations exit.
MarkMaxIterations(job) ==
    update_marketing_strategy_job(job,
        [status |-> "error",
         error_message |-> <<"Agent reached maximum iterations", MAX_ITERATIONS>>])

\* Mutant: the trace is archived without the result.
ExecutionWithoutResult(jid, msgs, res) ==
    [agent_name |-> "marketing_strategy_agent", messages |-> msgs,
     result |-> [none |-> TRUE],
     started_at |-> "now", metadata |-> [source_id |-> source_id, job_id |-> jid]]

\* message_service.save_agent_execution(...): the archived trace
Execution(jid, msgs, res) ==
    [agent_name |-> "marketing_strategy_agent", messages |-> msgs, result |-> res,
     started_at |-> "now", metadata |-> [source_id |-> source_id, job_id |-> jid]]

\* Mutant: the terminal signal is ignored.
IgnoresTermination(is_termination) == FALSE

\* if is_termination: the trace is saved and the result returned at once
StopsAtTermination(is_termination) == is_termination

\* Mutant: the loop runs one iteration too many.
LoopOneTooMany(it) == it < MAX_ITERATIONS + 1

\* for iteration in range(1, self.MAX_ITERATIONS + 1): another iteration follows
LoopContinues(it) == it < MAX_ITERATIONS

\* ------------------------------------------------------------------- state

VARIABLES
    pc,                   \* where generate_marketing_strategy stands
    record,               \* the job record of (project_id, job_id)
    artifact,             \* the file marketing_strategies/{job_id}.md
    messages,             \* the transcript
    iteration,            \* the loop variable
    total_input_tokens,
    total_output_tokens,
    sections_written,     \* the orchestrator's counter
    content_blocks,       \* the blocks of the response being processed
    block_index,          \* the block the inner loop stands at
    tool_results,         \* the tool results collected for this response
    returned,             \* what generate_marketing_strategy returned
    executions,           \* the traces saved by _save_execution
    \* history variables (not program state)
    model_calls,          \* number of send_message calls issued
    status_log,           \* the values the record's status took, in order
    last_call,            \* the last execute_tool call and what it returned
    failures,             \* exceptions raised by the environment so far
    payloads,             \* markdown_content of every write call that got to
                          \* the file, in call order
    script                \* progress along the plan-3/write/write/write-last run

\* Two runs of generate_marketing_strategy in one process, for two job ids
\* (used by SpecPair only; Spec leaves these as they start).
VARIABLES
    runs,                 \* the local variables of each run
    store,                \* the job records of the store, by key
    files,                \* the files of the studio directory, by path
    prompt_config         \* self._prompt_config / self._tools of the singleton

\* The other services (each used by its own specification only).
VARIABLES
    comp,                 \* a component job driven through ComponentToolExecutor
    wf                    \* a run of WireframeService.generate_wireframe

runVars == <<pc, record, artifact, messages, iteration, total_input_tokens,
             total_output_tokens, sections_written, content_blocks, block_index,
             tool_results, returned, executions, model_calls, status_log,
             last_call, failures, payloads, script>>

pairVars == <<runs, store, files, prompt_config>>

otherVars == <<comp, wf>>

vars == <<runVars, pairVars, otherVars>>

NoResult == [none |-> TRUE]
NoCall == [tool_name |-> "none", operation |-> "none", is_last_section |-> FALSE,
           context |-> BuildContext(job_id, 0, 0, 0, 0),
           result |-> NoResult, is_termination |-> FALSE, fail |-> "none"]

HasReturned == "success" \in DOMAIN returned

\* The values status took: one entry per change of the record's status.
StatusChange(before, after) ==
    IF after.status # before.status THEN <<after.status>> ELSE <<>>

\* self._prompt_config = None; self._tools = None
NoConfig == [none |-> TRUE]

InitRun ==
    /\ pc = "idle"
    /\ record = QueuedJob
    /\ artifact = <<>>
    /\ messages = <<>>
    /\ iteration = 0
    /\ total_input_tokens = 0
    /\ total_output_tokens = 0
    /\ sections_written = 0
    /\ content_blocks = <<>>
    /\ block_index = 0
    /\ tool_results = <<>>
    /\ returned = NoResult
    /\ executions = <<>>
    /\ model_calls = 0
    /\ status_log = <<"queued">>
    /\ last_call = NoCall
    /\ failures = 0
    /\ payloads = <<>>
    /\ script = 0

Init ==
    /\ InitRun
    /\ runs = <<>>
    /\ store = <<>>
    /\ files = <<>>
    /\ prompt_config = NoConfig
    /\ comp = <<>>
    /\ wf = <<>>

\* The first user turn: the configured template filled with the source content.
UserMessage == [role |-> "user", content |-> <<[type |-> "text"]>>]

\* generate_marketing_strategy up to the loop: the record is marked
\* processing, the transcript gets its first user turn, the counters are zero.
Start ==
    /\ UNCHANGED <<pairVars, otherVars>>
    /\ pc = "idle"
    /\ record' = MarkProcessing(record)
    /\ status_log' = status_log \o StatusChange(record, record')
    /\ messages' = <<UserMessage>>
    /\ total_input_tokens' = 0
    /\ total_output_tokens' = 0
    /\ sections_written' = 0
    /\ iteration' = 1
    /\ pc' = "call"
    /\ UNCHANGED <<artifact, content_blocks, block_index, tool_results, returned,
                   executions, model_calls, last_call, failures, payloads, script>>

\* Whether the response blocks is step it of the run "plan 3 sections, write,
\* write, write with the last-section flag", one tool call per response.
ScriptStep(blocks, it) ==
    /\ Len(blocks) = 1
    /\ blocks[1].type = "tool_use"
    /\ \/ it = 1 /\ blocks[1].name = PLAN_TOOL /\ Len(blocks[1].input.sections) = 3
       \/ it \in {2, 3} /\ blocks[1].name = WRITE_TOOL /\ ~blocks[1].input.is_last_section
       \/ it = 4 /\ blocks[1].name = WRITE_TOOL /\ blocks[1].input.is_last_section

\* One iteration up to the inner loop: the model call returns, the usage is
\* added, the assistant turn is appended.
SendMessage ==
    /\ UNCHANGED <<pairVars, otherVars>>
    /\ pc = "call"
    /\ \E blocks \in Responses(messages, iteration) :
         LET usage == Usage(messages, blocks) IN
         /\ total_input_tokens' = total_input_tokens + usage.input_tokens
         /\ total_output_tokens' = total_output_tokens + usage.output_tokens
         /\ content_blocks' = blocks
         /\ messages' = Append(messages,
                [role |-> "assistant", content |-> serialize_content_blocks(blocks)])
         /\ script' = IF script = iteration - 1 /\ ScriptStep(blocks, iteration)
                      THEN iteration ELSE -1
    /\ model_calls' = model_calls + 1
    /\ tool_results' = <<>>
    /\ block_index' = 1
    /\ pc' = "blocks"
    /\ UNCHANGED <<record, artifact, iteration, sections_written, returned,
                   executions, status_log, last_call, failures, payloads>>

\* Mutant: the exception of send_message is caught and the record marked error.
SendMessageRaisesCaught ==
    /\ UNCHANGED <<pairVars, otherVars>>
    /\ pc = "call"
    /\ model_calls' = model_calls + 1
    /\ record' = MarkMaxIterations(record)
    /\ status_log' = status_log \o StatusChange(record, record')
    /\ pc' = "raised"
    /\ UNCHANGED <<artifact, messages, iteration, total_input_tokens,
                   total_output_tokens, sections_written, content_blocks,
                   block_index, tool_results, returned, executions,
                   last_call, failures, payloads, script>>

\* claude_service.send_message raises: nothing catches it, the run is over.
SendMessageRaises ==
    /\ UNCHANGED <<pairVars, otherVars>>
    /\ pc = "call"
    /\ model_calls' = model_calls + 1
    /\ pc' = "raised"
    /\ UNCHANGED <<record, artifact, messages, iteration, total_input_tokens,
                   total_output_tokens, sections_written, content_blocks,
                   block_index, tool_results, returned, executions, status_log,
                   last_call, failures, payloads, script>>

\* A block that is no tool_use is passed over.
SkipBlock ==
    /\ UNCHANGED <<pairVars, otherVars>>
    /\ pc = "blocks"
    /\ block_index <= Len(content_blocks)
    /\ content_blocks[block_index].type # "tool_use"
    /\ block_index' = block_index + 1
    /\ UNCHANGED <<pc, record, artifact, messages, iteration, total_input_tokens,
                   total_output_tokens, sections_written, content_blocks,
                   tool_results, returned, executions, model_calls, status_log,
                   last_call, failures, payloads, script>>

\* Where the environment may raise while the block is executed: it raises
\* once in a run at most.
FailureChoices(block) ==
    IF block.name = WRITE_TOOL /\ failures = 0
    THEN {"none", "fs", "record"}
         \cup (IF block.input.is_last_section THEN {"finalize"} ELSE {})
    ELSE {"none"}

\* A tool_use block: context, execute_tool, the counter, and then either the
\* terminal exit (trace saved, result returned) or one more tool result.
ExecuteToolUse ==
    /\ UNCHANGED <<pairVars, otherVars>>
    /\ pc = "blocks"
    /\ block_index <= Len(content_blocks)
    /\ content_blocks[block_index].type = "tool_use"
    /\ LET block == content_blocks[block_index] IN
       \E fail \in FailureChoices(block) :
         LET context == BuildContext(job_id, sections_written, iteration,
                                     total_input_tokens, total_output_tokens)
             out == execute_tool(block.name, block.input, context, record, artifact, fail)
         IN  /\ record' = out.job
             /\ artifact' = out.file
             /\ status_log' = status_log \o StatusChange(record, out.job)
             /\ sections_written' = TrackSections(block.name, sections_written)
             /\ failures' = IF fail = "none" THEN failures ELSE failures + 1
             /\ payloads' = IF block.name = WRITE_TOOL /\ fail # "fs"
                            THEN Append(payloads, block.input.markdown_content)
                            ELSE payloads
             /\ script' = IF fail = "none" THEN script ELSE -1
             /\ last_call' = [tool_name |-> block.name,
                              operation |-> Operation(block.input),
                              is_last_section |-> block.input.is_last_section,
                              context |-> context,
                              result |-> out.result,
                              is_termination |-> out.is_termination, fail |-> fail]
             /\ IF StopsAtTermination(out.is_termination)
                THEN /\ executions' = Append(executions, Execution(job_id, messages, out.result))
                     /\ returned' = out.result
                     /\ pc' = "done"
                     /\ UNCHANGED <<tool_results, block_index>>
                ELSE /\ tool_results' = Append(tool_results, ToolResult(block.id, out.result))
                     /\ block_index' = block_index + 1
                     /\ UNCHANGED <<executions, returned, pc>>
    /\ UNCHANGED <<messages, iteration, total_input_tokens, total_output_tokens,
                   content_blocks, model_calls>>

\* The end of the inner loop: the collected tool results (if any) become the
\* next user turn, and the outer loop goes on or is exhausted.
EndResponse ==
    /\ UNCHANGED <<pairVars, otherVars>>
    /\ pc = "blocks"
    /\ block_index > Len(content_blocks)
    /\ messages' = IF tool_results # <<>>
                   THEN Append(messages, [role |-> "user", content |-> tool_results])
                   ELSE messages
    /\ IF LoopContinues(iteration)
       THEN iteration' = iteration + 1 /\ pc' = "call"
       ELSE iteration' = iteration /\ pc' = "exhausted"
    \* content_blocks and tool_results are dead until the next iteration
    \* assigns them
    /\ content_blocks' = <<>>
    /\ tool_results' = <<>>
    /\ block_index' = 0
    /\ UNCHANGED <<record, artifact, total_input_tokens, total_output_tokens,
                   sections_written, returned, executions, model_calls,
                   status_log, last_call, failures, payloads, script>>

\* The max-iterations exit: the record is marked error, the trace is saved,
\* error_result is returned.
MaxIterationsReached ==
    /\ UNCHANGED <<pairVars, otherVars>>
    /\ pc = "exhausted"
    /\ LET error_result == MaxIterationsResult(sections_written, total_input_tokens,
                                               total_output_tokens)
       IN  /\ record' = MarkMaxIterations(record)
           /\ executions' = Append(executions, Execution(job_id, messages, error_result))
           /\ returned' = error_result
    /\ status_log' = status_log \o StatusChange(record, record')
    /\ pc' = "done"
    /\ UNCHANGED <<artifact, messages, iteration, total_input_tokens,
                   total_output_tokens, sections_written, content_blocks,
                   block_index, tool_results, model_calls, last_call, failures,
                   payloads, script>>

Next ==
    \/ Start
    \/ SendMessage
    \/ SendMessageRaises
    \/ SkipBlock
    \/ ExecuteToolUse
    \/ EndResponse
    \/ MaxIterationsReached

Spec == Init /\ [][Next]_vars

\* ------------------------------------------------- two runs in one process

\* The job ids of the two runs; both jobs belong to project_id.
Jobs == {"j1", "j2"}

\* The key under which the store keeps the record of a job.
StoreKey(p, j) == <<p, j>>

\* Mutant: every job of a project writes to the same file.
FilePathSharedName(p, j) == <<p, "marketing_strategies", <<"strategy", ".md">>>>

\* os.path.join(get_studio_dir(project_id), "marketing_strategies", f"{job_id}.md")
FilePath(p, j) == <<p, "marketing_strategies", MarkdownFilename(j)>>

\* What prompt_loader and tool_loader return for the agent: static.
PromptConfig == [user_message |-> "template", tools |-> "all_tools"]

\* _load_config / _load_tools: loaded by the first run that finds None.
load_config(cache) == IF cache = NoConfig THEN PromptConfig ELSE cache

\* The payload of the n-th write call of the run for job j: the two jobs
\* never write the same text.
PairPayload(j, n) == IF j = "j1" THEN PayloadNames[n] ELSE PayloadNames[n + 4]

Move(tool, input, fail) == [tool |-> tool, input |-> input, fail |-> fail]
PairWrite(j, op, num, last, n) ==
    [WriteInput(op, num, last, 1) EXCEPT !.section_title = PairPayload(j, n),
                                         !.markdown_content = PairPayload(j, n)]

\* What the provider answers to the run for job j, one tool call per
\* response, and where the environment raises; after the last move it answers
\* without tool calls.
PairScripts(j) ==
    { \* plan, two sections, finished in iteration 3
      <<Move(PLAN_TOOL, PlanInput(3), "none"),
        Move(WRITE_TOOL, PairWrite(j, "write", 1, FALSE, 1), "none"),
        Move(WRITE_TOOL, PairWrite(j, "append", 2, TRUE, 2), "none")>>,
      \* finished by the first call
      <<Move(WRITE_TOOL, PairWrite(j, "write", 1, TRUE, 1), "none")>>,
      \* never finished: the run ends at MAX_ITERATIONS
      <<Move("search_web", NoInput, "none"),
        Move(WRITE_TOOL, PairWrite(j, "append", 5, FALSE, 1), "none")>>,
      \* the first write raises, the second finishes
      <<Move(WRITE_TOOL, PairWrite(j, "write", 1, FALSE, 1), "fs"),
        Move(WRITE_TOOL, PairWrite(j, "append", 1, TRUE, 2), "none")>>,
      \* the finalization raises
      <<Move(WRITE_TOOL, PairWrite(j, "write", 1, FALSE, 1), "none"),
        Move(WRITE_TOOL, PairWrite(j, "append", 2, TRUE, 2), "finalize")>> }

\* The local variables of a run that has not started; steps counts the steps
\* the run has taken (history).
InitialRun(moves) ==
    [pc |-> "idle", moves |-> moves, messages |-> <<>>, iteration |-> 0,
     total_input_tokens |-> 0, total_output_tokens |-> 0, sections_written |-> 0,
     content_blocks |-> <<>>, block_index |-> 0, tool_results |-> <<>>,
     returned |-> NoResult, executions |-> <<>>, steps |-> 0]

\* The response to the model call of iteration it.
PairResponse(moves, it) ==
    IF it <= Len(moves)
    THEN <<ToolUse(moves[it].tool, <<it, 1>>, moves[it].input)>>
    ELSE <<TextBlock>>

\* The steps of generate_marketing_strategy(project_id, source_id, jid) as
\* functions of what the run can reach: its local variables loc, the record
\* rec under its key, the file under its path and the configuration cache.
RunStart(jid, loc, rec, file, cfg) ==
    [loc |-> [loc EXCEPT !.pc = "call", !.messages = <<UserMessage>>,
                         !.iteration = 1, !.steps = @ + 1],
     rec |-> MarkProcessing(rec), file |-> file, cfg |-> load_config(cfg)]

RunSendMessage(jid, loc, rec, file, cfg) ==
    LET blocks == PairResponse(loc.moves, loc.iteration)
        usage == Usage(loc.messages, blocks)
    IN  [loc |-> [loc EXCEPT
                    !.pc = "blocks",
                    !.total_input_tokens = @ + usage.input_tokens,
                    !.total_output_tokens = @ + usage.output_tokens,
                    !.content_blocks = blocks,
                    !.messages = Append(@, [role |-> "assistant",
                                            content |-> serialize_content_blocks(blocks)]),
                    !.tool_results = <<>>,
                    !.block_index = 1,
                    !.steps = @ + 1],
         rec |-> rec, file |-> file, cfg |-> cfg]

RunSkipBlock(jid, loc, rec, file, cfg) ==
    [loc |-> [loc EXCEPT !.block_index = @ + 1, !.steps = @ + 1],
     rec |-> rec, file |-> file, cfg |-> cfg]

RunExecuteToolUse(jid, loc, rec, file, cfg) ==
    LET block == loc.content_blocks[loc.block_index]
        context == BuildContext(jid, loc.sections_written, loc.iteration,
                                loc.total_input_tokens, loc.total_output_tokens)
        out == execute_tool(block.name, block.input, context, rec, file,
                            loc.moves[loc.iteration].fail)
        counted == [loc EXCEPT
                      !.sections_written = TrackSections(block.name, @),
                      !.steps = @ + 1]
    IN  [loc |-> IF StopsAtTermination(out.is_termination)
                 THEN [counted EXCEPT
                         !.executions = Append(@, Execution(jid, loc.messages, out.result)),
                         !.returned = out.result,
                         !.pc = "done"]
                 ELSE [counted EXCEPT
                         !.tool_results = Append(@, ToolResult(block.id, out.result)),
                         !.block_index = @ + 1],
         rec |-> out.job, file |-> out.file, cfg |-> cfg]

RunEndResponse(jid, loc, rec, file, cfg) ==
    [loc |-> [loc EXCEPT
                !.messages = IF loc.tool_results # <<>>
                             THEN Append(@, [role |-> "user", content |-> loc.tool_results])
                             ELSE @,
                !.iteration = IF LoopContinues(loc.iteration) THEN @ + 1 ELSE @,
                !.pc = IF LoopContinues(loc.iteration) THEN "call" ELSE "exhausted",
                !.content_blocks = <<>>,
                !.tool_results = <<>>,
                !.block_index = 0,
                !.steps = @ + 1],
     rec |-> rec, file |-> file, cfg |-> cfg]

RunMaxIterations(jid, loc, rec, file, cfg) ==
    LET error_result == MaxIterationsResult(loc.sections_written,
                            loc.total_input_tokens, loc.total_output_tokens)
    IN  [loc |-> [loc EXCEPT
                    !.executions = Append(@, Execution(jid, loc.messages, error_result)),
                    !.returned = error_result,
                    !.pc = "done",
                    !.steps = @ + 1],
         rec |-> MarkMaxIterations(rec), file |-> file, cfg |-> cfg]

\* Where the run stands inside the block loop.
AtBlock(loc) == loc.pc = "blocks" /\ loc.block_index <= Len(loc.content_blocks)
AtToolUse(loc) == AtBlock(loc) /\ loc.content_blocks[loc.block_index].type = "tool_use"
AtOtherBlock(loc) == AtBlock(loc) /\ loc.content_blocks[loc.block_index].type # "tool_use"
AtEndOfBlocks(loc) == loc.pc = "blocks" /\ loc.block_index > Len(loc.content_blocks)

\* The next step of a run that has not returned.
StepRun(jid, loc, rec, file, cfg) ==
    IF loc.pc = "idle" THEN RunStart(jid, loc, rec, file, cfg)
    ELSE IF loc.pc = "call" THEN RunSendMessage(jid, loc, rec, file, cfg)
    ELSE IF AtToolUse(loc) THEN RunExecuteToolUse(jid, loc, rec, file, cfg)
    ELSE IF AtOtherBlock(loc) THEN RunSkipBlock(jid, loc, rec, file, cfg)
    ELSE IF AtEndOfBlocks(loc) THEN RunEndResponse(jid, loc, rec, file, cfg)
    ELSE RunMaxIterations(jid, loc, rec, file, cfg)

\* The run for job j takes the step run_step: it reads and writes its own
\* local variables, the record under its key, the file under its path, and
\* the singleton's cache.
PairApply(j, out) ==
    /\ runs' = [runs EXCEPT ![j] = out.loc]
    /\ store' = [store EXCEPT ![StoreKey(project_id, j)] = out.rec]
    /\ files' = [files EXCEPT ![FilePath(project_id, j)] = out.file]
    /\ prompt_config' = out.cfg
    /\ UNCHANGED <<runVars, otherVars>>

PairStart(j) ==
    /\ runs[j].pc = "idle"
    /\ PairApply(j, RunStart(j, runs[j], store[StoreKey(project_id, j)],
                             files[FilePath(project_id, j)], prompt_config))

PairSendMessage(j) ==
    /\ runs[j].pc = "call"
    /\ PairApply(j, RunSendMessage(j, runs[j], store[StoreKey(project_id, j)],
                                   files[FilePath(project_id, j)], prompt_config))

PairSkipBlock(j) ==
    /\ AtOtherBlock(runs[j])
    /\ PairApply(j, RunSkipBlock(j, runs[j], store[StoreKey(project_id, j)],
                                 files[FilePath(project_id, j)], prompt_config))

PairExecuteToolUse(j) ==
    /\ AtToolUse(runs[j])
    /\ PairApply(j, RunExecuteToolUse(j, runs[j], store[StoreKey(project_id, j)],
                                      files[FilePath(project_id, j)], prompt_config))

PairEndResponse(j) ==
    /\ AtEndOfBlocks(runs[j])
    /\ PairApply(j, RunEndResponse(j, runs[j], store[StoreKey(project_id, j)],
                                   files[FilePath(project_id, j)], prompt_config))

PairMaxIterations(j) ==
    /\ runs[j].pc = "exhausted"
    /\ PairApply(j, RunMaxIterations(j, runs[j], store[StoreKey(project_id, j)],
                                     files[FilePath(project_id, j)], prompt_config))

InitPair ==
    /\ InitRun
    /\ \E m1 \in PairScripts("j1") : \E m2 \in PairScripts("j2") :
         runs = [j \in Jobs |-> InitialRun(IF j = "j1" THEN m1 ELSE m2)]
    /\ store = [k \in {StoreKey(project_id, j) : j \in Jobs} |-> QueuedJob]
    /\ files = [f \in {FilePath(project_id, j) : j \in Jobs} |-> <<>>]
    /\ prompt_config = NoConfig
    /\ comp = <<>>
    /\ wf = <<>>

NextPair ==
    \E j \in Jobs :
        \/ PairStart(j)
        \/ PairSendMessage(j)
        \/ PairSkipBlock(j)
        \/ PairExecuteToolUse(j)
        \/ PairEndResponse(j)
        \/ PairMaxIterations(j)

SpecPair == InitPair /\ [][NextPair]_vars

\* ------------------------------------------------ component tool executor

\* studio_index_service.update_component_job(project, job, **fields): the
\* same partial-field merge as for the other job types.
update_component_job(rec, fields) == update_marketing_strategy_job(rec, fields)

PLAN_COMPONENTS == "plan_components"
\* ComponentToolExecutor.TERMINATION_TOOL
TERMINATION_TOOL == "write_component_code"
ComponentTools == {PLAN_COMPONENTS, TERMINATION_TOOL} \cup UnknownTools

\* Names are sequences of characters; <<>> stands for a name that is absent.
VariationNames == {<<"H", "i">>, <<"a", " ", "b">>, <<"a", "/", "b">>}
Alnum == {"H", "i", "a", "b", "h", "1", "2", "3", "Variation"}

\* c if c.isalnum() or c in (' ', '-', '_') else '_'
SafeChar(c) == IF c \in Alnum \cup {" ", "-", "_"} THEN c ELSE "_"
\* str.lower()
Lower(c) == IF c = "H" THEN "h" ELSE IF c = "Variation" THEN "variation" ELSE c
\* safe_name: the replacement, then ' ' -> '_', then lower()
SafeName(name) ==
    [k \in DOMAIN name |->
        Lower(IF SafeChar(name[k]) = " " THEN "_" ELSE SafeChar(name[k]))]
\* f"{safe_name}.html"
HtmlFilename(name) == Append(SafeName(name), ".html")

\* component.get("variation_name", f"Variation {idx + 1}") for the idx-th
\* (from 1) component
VariationName(component, idx) ==
    IF component.variation_name = <<>>
    THEN <<"Variation", " ", <<"1", "2", "3">>[idx]>>
    ELSE component.variation_name

\* The component job as the agent left it before the first tool call.
ComponentJob ==
    [status |-> "processing", component_category |-> "none",
     component_description |-> "none", variations_planned |-> <<>>,
     status_message |-> <<"Starting">>, components |-> <<>>, usage_notes |-> "none",
     iterations |-> 0, input_tokens |-> 0, output_tokens |-> 0,
     completed_at |-> "none", error_message |-> <<>>]

\* The context the component agent passes.
ComponentContext ==
    [project_id |-> project_id, job_id |-> job_id, iterations |-> 2,
     input_tokens |-> 7, output_tokens |-> 5]

\* tool inputs of plan_components and write_component_code
ComponentPlans ==
    [component_category : {"none", "button"},
     variations : SeqsOf([variation_name : VariationNames \cup {<<>>}], 0, MaxComponents)]
ComponentCode ==
    [components : SeqsOf([variation_name : VariationNames \cup {<<>>},
                          html_code : {"<a/>", "<b/>"}], 0, MaxComponents),
     usage_notes : {"notes"}]

\* ComponentToolExecutor._handle_plan
component_handle_plan(job, tool_input) ==
    LET category == IF tool_input.component_category = "none" THEN "other"
                    ELSE tool_input.component_category
        names == [k \in DOMAIN tool_input.variations |->
                    IF tool_input.variations[k].variation_name = <<>>
                    THEN <<"Unnamed">>
                    ELSE tool_input.variations[k].variation_name]
    IN  [job |-> update_component_job(job,
                    [component_category |-> category,
                     variations_planned |-> tool_input.variations,
                     status_message |-> <<"Planned variations, generating code",
                                          Len(tool_input.variations)>>]),
         message |-> [kind |-> "plan_saved", category |-> category, names |-> names]]

\* with open(file_path, 'w') as f: f.write(html_code)
WriteHtml(dir, filename, html) ==
    {f \in dir : f.filename # filename} \cup {[filename |-> filename, html |-> html]}

\* The entry of saved_components for the idx-th component.
SavedComponent(component, idx) ==
    [variation_name |-> VariationName(component, idx),
     filename |-> HtmlFilename(VariationName(component, idx)),
     preview_url |-> <<"/api/v1/projects/", project_id, "/studio/components/",
                       job_id, "/preview/", HtmlFilename(VariationName(component, idx))>>]

\* The component directory after the first n components were saved.
RECURSIVE SaveComponents(_, _, _)
SaveComponents(dir, components, n) ==
    IF n = 0 THEN dir
    ELSE WriteHtml(SaveComponents(dir, components, n - 1),
                   HtmlFilename(VariationName(components[n], n)),
                   components[n].html_code)

\* Where the environment may raise in _handle_write_code: creating the
\* directory, opening the file of component idx, or the record read/update.
NoFailure == [at |-> "none", idx |-> 0]
WriteCodeFailures(tool_input) ==
    {NoFailure, [at |-> "mkdir", idx |-> 0], [at |-> "record", idx |-> 0]}
    \cup {[at |-> "open", idx |-> k] : k \in DOMAIN tool_input.components}

\* Mutant: the except branch of _handle_write_code leaves the record alone.
MarkComponentErrorSkipped(job) == job

\* The record update of the except branch of _handle_write_code.
MarkComponentError(job) ==
    update_component_job(job,
        [status |-> "error", error_message |-> <<"Error writing component code">>])

\* The record update of the try branch of _handle_write_code.
MarkComponentReady(job, saved, tool_input, iterations, input_tokens, output_tokens) ==
    update_component_job(job,
        [status |-> "ready",
         status_message |-> <<"Components generated successfully!">>,
         components |-> saved,
         usage_notes |-> tool_input.usage_notes,
         iterations |-> iterations,
         input_tokens |-> input_tokens,
         output_tokens |-> output_tokens,
         completed_at |-> "now"])

\* ComponentToolExecutor._handle_write_code
handle_write_code(job, dir, tool_input, iterations, input_tokens, output_tokens, fail) ==
    LET components == tool_input.components
        written == IF fail.at = "mkdir" THEN 0
                   ELSE IF fail.at = "open" THEN fail.idx - 1
                   ELSE Len(components)
        saved == [k \in DOMAIN components |-> SavedComponent(components[k], k)]
    IN  IF fail.at = "none"
        THEN [job |-> MarkComponentReady(job, saved, tool_input, iterations,
                                         input_tokens, output_tokens),
              dir |-> SaveComponents(dir, components, written),
              result |-> [success |-> TRUE, job_id |-> job_id,
                          component_category |->
                              IF job.component_category = "none" THEN "component"
                              ELSE job.component_category,
                          components |-> saved,
                          usage_notes |-> tool_input.usage_notes,
                          iterations |-> iterations,
                          usage |-> [input_tokens |-> input_tokens,
                                     output_tokens |-> output_tokens]]]
        ELSE [job |-> MarkComponentError(job),
              dir |-> SaveComponents(dir, components, written),
              result |-> [success |-> FALSE,
                          error_message |-> <<"Error writing component code">>,
                          iterations |-> iterations,
                          usage |-> [input_tokens |-> input_tokens,
                                     output_tokens |-> output_tokens]]]

\* ComponentToolExecutor.execute_tool: (result, is_termination), with the
\* record and the component directory as the handlers leave them.
component_execute_tool(tool_name, tool_input, context, job, dir, fail) ==
    IF tool_name = PLAN_COMPONENTS
    THEN LET planned == component_handle_plan(job, tool_input) IN
         [result |-> [success |-> TRUE, message |-> planned.message],
          is_termination |-> FALSE, job |-> planned.job, dir |-> dir]
    ELSE IF tool_name = TERMINATION_TOOL
    THEN LET code == handle_write_code(job, dir, tool_input, context.iterations,
                                       context.input_tokens, context.output_tokens, fail)
         IN  [result |-> code.result, is_termination |-> TRUE,
              job |-> code.job, dir |-> code.dir]
    ELSE [result |-> [success |-> FALSE, message |-> UnknownToolMessage(tool_name)],
          is_termination |-> FALSE, job |-> job, dir |-> dir]

\* One call of the executor by the component agent; the agent stops calling
\* after a call reported terminal.
ComponentCall(tool_name, tool_input, fail) ==
    LET out == component_execute_tool(tool_name, tool_input, ComponentContext,
                                      comp.record, comp.dir, fail)
    IN  comp' = [pc |-> IF out.is_termination THEN "done" ELSE "running",
                 record |-> out.job,
                 dir |-> out.dir,
                 status_log |-> comp.status_log \o StatusChange(comp.record, out.job),
                 last_call |-> [tool_name |-> tool_name, fail |-> fail,
                                result |-> out.result,
                                is_termination |-> out.is_termination]]

ComponentPlan ==
    /\ comp.pc = "running"
    /\ \E tool_input \in ComponentPlans : ComponentCall(PLAN_COMPONENTS, tool_input, NoFailure)
    /\ UNCHANGED <<runVars, pairVars, wf>>

ComponentWriteCode ==
    /\ comp.pc = "running"
    /\ \E tool_input \in ComponentCode : \E fail \in WriteCodeFailures(tool_input) :
         ComponentCall(TERMINATION_TOOL, tool_input, fail)
    /\ UNCHANGED <<runVars, pairVars, wf>>

ComponentUnknownTool ==
    /\ comp.pc = "running"
    /\ \E u \in UnknownTools : ComponentCall(u, NoInput, NoFailure)
    /\ UNCHANGED <<runVars, pairVars, wf>>

InitComponent ==
    /\ InitRun
    /\ runs = <<>> /\ store = <<>> /\ files = <<>> /\ prompt_config = NoConfig
    /\ wf = <<>>
    /\ comp = [pc |-> "running", record |-> ComponentJob, dir |-> {},
               status_log |-> <<"processing">>,
               last_call |-> [tool_name |-> "none", fail |-> NoFailure,
                              result |-> NoResult, is_termination |-> FALSE]]

NextComponent == ComponentPlan \/ ComponentWriteCode \/ ComponentUnknownTool

SpecComponent == InitComponent /\ [][NextComponent]_vars

\* ------------------------------------------------------- wireframe service

\* studio_index_service.update_wireframe_job(project, job, **fields): the
\* same partial-field merge as for the other job types.
update_wireframe_job(rec, fields) == update_marketing_strategy_job(rec, fields)

WIREFRAME_TOOL == "generate_wireframe"

\* The wireframe job as the caller created it.
QueuedWireframeJob ==
    [status |-> "queued", progress |-> "none", started_at |-> "none",
     title |-> "none", description |-> "none", elements |-> <<>>,
     element_count |-> 0, error |-> "none", completed_at |-> "none"]

\* What source_index_service.get_source_from_index may return: nothing, or
\* the source's metadata (with or without a name).
NoSource == [found |-> FALSE, name |-> "none"]
Sources == {NoSource, [found |-> TRUE, name |-> "none"], [found |-> TRUE, name |-> "doc"]}

\* What get_source_content may return.
SourceContents == {"", "Error: not processed", "page text"}

\* not content or content.startswith("Error")
BadContent(content) == content = "" \/ content = "Error: not processed"

\* The tool input of a generate_wireframe block, with or without the
\* elements key; title "none" is an input without a title.
WireframeInputs ==
    [title : {"none", "Home"}]
    \cup [elements : SeqsOf({"rectangle", "text"}, 0, MaxComponents),
          title : {"none", "Home"}]

\* What send_message may return: the forced tool call, or no tool call.
WireframeResponses ==
    {<<TextBlock>>}
    \cup {<<ToolUse(WIREFRAME_TOOL, <<1, 1>>, input)>> : input \in WireframeInputs}

\* claude_parsing_utils.extract_tool_inputs(response, tool_name): the inputs
\* of the tool_use blocks of that tool, in block order.
extract_tool_inputs(response, tool_name) ==
    LET calls == SelectSeq(response,
                     LAMBDA b : b.type = "tool_use" /\ b.name = tool_name)
    IN  [k \in DOMAIN calls |-> calls[k].input]

\* not tool_inputs_list or "elements" not in tool_inputs_list[0]
NoElements(tool_inputs_list) ==
    tool_inputs_list = <<>> \/ "elements" \notin DOMAIN tool_inputs_list[1]

\* excalidraw_utils.convert_to_excalidraw_elements: one element per raw element.
convert_to_excalidraw_elements(raw_elements) ==
    [k \in DOMAIN raw_elements |-> [type |-> raw_elements[k], id |-> k]]

\* The update at the start of generate_wireframe.
MarkWireframeProcessing(job) ==
    update_wireframe_job(job,
        [status |-> "processing", progress |-> "Reading source content...",
         started_at |-> "now"])

\* update_wireframe_job(progress=...)
WireframeProgress(job, progress) == update_wireframe_job(job, [progress |-> progress])

\* The update of the record with the results.
MarkWireframeReady(job, tool_inputs, excalidraw_elements) ==
    update_wireframe_job(job,
        [status |-> "ready", progress |-> "Complete",
         title |-> IF tool_inputs.title = "none" THEN "Wireframe" ELSE tool_inputs.title,
         elements |-> excalidraw_elements,
         element_count |-> Len(excalidraw_elements),
         completed_at |-> "now"])

\* Mutant: the except branch leaves the record alone.
MarkWireframeErrorSkipped(job, error) == job

\* The update of the except branch.
MarkWireframeError(job, error) ==
    update_wireframe_job(job,
        [status |-> "error", error |-> error, completed_at |-> "now"])

\* What the try branch returns.
WireframeResult(tool_inputs, excalidraw_elements, source) ==
    [success |-> TRUE,
     title |-> IF tool_inputs.title = "none" THEN "Wireframe" ELSE tool_inputs.title,
     elements |-> excalidraw_elements,
     element_count |-> Len(excalidraw_elements),
     source_name |-> IF source.name = "none" THEN "Unknown" ELSE source.name]

\* The except branch: the record is marked error and the failure returned.
WireframeFailed(error) ==
    [wf EXCEPT !.pc = "done",
               !.record = MarkWireframeError(wf.record, error),
               !.status_log = @ \o StatusChange(wf.record, MarkWireframeError(wf.record, error)),
               !.returned = [success |-> FALSE, error |-> error]]

\* generate_wireframe up to the try: the job is marked processing.
WfStart ==
    /\ wf.pc = "idle"
    /\ wf' = [wf EXCEPT !.pc = "source",
                        !.record = MarkWireframeProcessing(wf.record),
                        !.status_log = @ \o StatusChange(wf.record,
                                             MarkWireframeProcessing(wf.record))]
    /\ UNCHANGED <<runVars, pairVars, comp>>

\* The source lookup and the progress update after it; raised says whether
\* the index read or the store update raises.
WfGetSource ==
    /\ wf.pc = "source"
    /\ \E source \in Sources : \E raised \in {"none", "index", "store"} :
         wf' = IF raised = "index" THEN WireframeFailed("index read failed")
               ELSE IF ~source.found THEN WireframeFailed("Source not found")
               ELSE IF raised = "store" THEN WireframeFailed("store update failed")
               ELSE [wf EXCEPT !.pc = "content", !.source = source,
                               !.record = WireframeProgress(wf.record, "Analyzing content...")]
    /\ UNCHANGED <<runVars, pairVars, comp>>

\* The content fetch, the configuration, the user message and the progress
\* update before the model call.
WfGetContent ==
    /\ wf.pc = "content"
    /\ \E content \in SourceContents : \E raised \in {"none", "fetch", "config", "store"} :
         wf' = IF raised = "fetch" THEN WireframeFailed("content fetch failed")
               ELSE IF BadContent(content) THEN WireframeFailed("No content found for source")
               ELSE IF raised = "config" THEN WireframeFailed("configuration failed")
               ELSE IF raised = "store" THEN WireframeFailed("store update failed")
               ELSE [wf EXCEPT !.pc = "send", !.content = content,
                               !.record = WireframeProgress(wf.record, "Generating wireframe...")]
    /\ UNCHANGED <<runVars, pairVars, comp>>

\* The model call, the extraction of the tool input and the progress update
\* after it.
WfSendMessage ==
    /\ wf.pc = "send"
    /\ \E response \in WireframeResponses : \E raised \in {"none", "call", "store"} :
         LET tool_inputs_list == extract_tool_inputs(response, WIREFRAME_TOOL) IN
         wf' = IF raised = "call" THEN WireframeFailed("model call failed")
               ELSE IF NoElements(tool_inputs_list)
               THEN WireframeFailed("Failed to generate wireframe - no elements returned")
               ELSE IF raised = "store" THEN WireframeFailed("store update failed")
               ELSE [wf EXCEPT !.pc = "convert", !.tool_inputs = tool_inputs_list[1],
                               !.record = WireframeProgress(wf.record, "Formatting wireframe...")]
    /\ UNCHANGED <<runVars, pairVars, comp>>

\* The conversion, the update with the results and the return.
WfConvert ==
    /\ wf.pc = "convert"
    /\ \E raised \in {"none", "convert", "store"} :
         LET excalidraw_elements == convert_to_excalidraw_elements(wf.tool_inputs.elements)
             ready == MarkWireframeReady(wf.record, wf.tool_inputs, excalidraw_elements)
         IN  wf' = IF raised = "convert" THEN WireframeFailed("conversion failed")
                   ELSE IF raised = "store" THEN WireframeFailed("store update failed")
                   ELSE [wf EXCEPT !.pc = "done",
                                   !.record = ready,
                                   !.status_log = @ \o StatusChange(wf.record, ready),
                                   !.returned = WireframeResult(wf.tool_inputs,
                                                    excalidraw_elements, wf.source)]
    /\ UNCHANGED <<runVars, pairVars, comp>>

InitWireframe ==
    /\ InitRun
    /\ runs = <<>> /\ store = <<>> /\ files = <<>> /\ prompt_config = NoConfig
    /\ comp = <<>>
    /\ wf = [pc |-> "idle", record |-> QueuedWireframeJob, status_log |-> <<"queued">>,
             source |-> NoSource, content |-> "",
             tool_inputs |-> [title |-> "none"],
             returned |-> NoResult]

NextWireframe == WfStart \/ WfGetSource \/ WfGetContent \/ WfSendMessage \/ WfConvert

\* Every blocking call of generate_wireframe returns or raises, so the
\* function goes on while it has a step to take.
SpecWireframe == InitWireframe /\ [][NextWireframe]_vars /\ WF_vars(NextWireframe)

\* ------------------------------------------------------------------ claims

Last(q) == q[Len(q)]

\* The tool_use blocks of turn i of the transcript that call an unknown tool.
UnknownCallsOf(i) ==
    IF messages[i].role # "assistant" THEN {}
    ELSE {k \in DOMAIN messages[i].content :
            /\ messages[i].content[k].type = "tool_use"
            /\ messages[i].content[k].name \in UnknownTools}

\* C1: the run makes at most MAX_ITERATIONS (10) model calls; when it returns
\* without any tool call having been signalled terminal, all 10 calls were
\* made, the returned result has success = false and the job record's status
\* is "error".
C1_BoundedLoop ==
    /\ model_calls <= MAX_ITERATIONS
    /\ iteration <= MAX_ITERATIONS
    /\ (HasReturned /\ ~last_call.is_termination) =>
          /\ model_calls = MAX_ITERATIONS
          /\ returned.success = FALSE
          /\ record.status = "error"

\* C1 witness: a run that wrote sections, never got a terminal signal and
\* returned after the tenth model call.
C1_Witness ==
    /\ HasReturned
    /\ ~last_call.is_termination
    /\ model_calls = MAX_ITERATIONS
    /\ sections_written > 0
    /\ returned.success = FALSE
    /\ record.status = "error"

\* C2: the record's status only moves queued -> processing -> ready or
\* queued -> processing -> error; it is "processing" all through the loop
\* (every iteration, every non-terminal executor call), it becomes "ready" or
\* "error" once, by the terminal executor call or by the max-iterations exit,
\* and the run is over then.
C2_StatusMachine ==
    /\ record.status = Last(status_log)
    /\ status_log \in {<<"queued">>, <<"queued", "processing">>,
                       <<"queued", "processing", "ready">>,
                       <<"queued", "processing", "error">>}
    /\ pc = "idle" => record.status = "queued"
    /\ pc \in {"call", "blocks", "exhausted", "raised"} => record.status = "processing"
    /\ pc = "done" => record.status \in {"ready", "error"}
    /\ record.status \in {"ready", "error"} =>
          /\ pc = "done"
          /\ \/ last_call.is_termination
             \/ model_calls = MAX_ITERATIONS /\ returned.iterations = MAX_ITERATIONS

\* C2 witness: a run that planned, wrote three sections and ended "ready".
C2_Witness ==
    /\ pc = "done"
    /\ status_log = <<"queued", "processing", "ready">>
    /\ sections_written >= 3
    /\ CallsSoFar(messages, {PLAN_TOOL}) >= 1

\* C3: a write_marketing_section call uses the orchestrator's counter + 1 as
\* the section number, whatever section_number the provider claims: the
\* counter rises by exactly one per call, and the record's sections_written
\* (and the number in the message read back to the provider) is counter + 1.
C3_AuthoritativeNumber ==
    /\ sections_written = CallsSoFar(messages, {WRITE_TOOL})
                          - (IF pc = "blocks"
                             THEN Cardinality({k \in block_index..Len(content_blocks) :
                                     content_blocks[k].name = WRITE_TOOL})
                             ELSE IF pc = "done" /\ last_call.is_termination
                             THEN Cardinality({k \in (block_index + 1)..Len(content_blocks) :
                                     content_blocks[k].name = WRITE_TOOL})
                             ELSE 0)
    /\ last_call.tool_name = WRITE_TOOL =>
          /\ sections_written = last_call.context.sections_written + 1
          /\ last_call.fail = "none" =>
                record.sections_written = last_call.context.sections_written + 1
          /\ (last_call.fail = "none" /\ ~last_call.is_termination) =>
                last_call.result.message.section = last_call.context.sections_written + 1

\* C3 witness (the spec's example): with the counter at 2 the provider claims
\* section 5 twice in one response; the calls are recorded as 3 and 4.
C3_Witness ==
    /\ pc = "blocks"
    /\ Len(content_blocks) = 2
    /\ block_index = 3
    /\ \A k \in {1, 2} : /\ content_blocks[k].name = WRITE_TOOL
                         /\ content_blocks[k].input.section_number = 5
    /\ Len(tool_results) = 2
    /\ tool_results[1].content.kind = "section_written"
    /\ tool_results[1].content.section = 3
    /\ tool_results[2].content.kind = "section_written"
    /\ tool_results[2].content.section = 4
    /\ last_call.context.sections_written = 3
    /\ record.sections_written = 4
    /\ sections_written = 4

\* C4 (the claim as stated): when a file or record mutation of the
\* write/finalize handler raises, the executor's result has success = false,
\* the call is reported terminal and the record's status is "error".
C4_WriteFailureEndsRun ==
    (last_call.tool_name = WRITE_TOOL /\ last_call.fail # "none") =>
        /\ last_call.result.success = FALSE
        /\ last_call.is_termination
        /\ record.status = "error"

\* C5 (the claim as stated): the artifact begins with exactly one header
\* block, and no call removes what an earlier call wrote: every call that got
\* to the file still has its content chunk in it.
C5_OneHeaderNoTruncation ==
    /\ artifact # <<>> => artifact[1].kind = "header"
    /\ Cardinality({i \in DOMAIN artifact : artifact[i].kind = "header"}) <= 1
    /\ Cardinality({i \in DOMAIN artifact : artifact[i].kind = "content"}) = Len(payloads)

\* The artifact without its header.
Body(file) ==
    IF file # <<>> /\ file[1].kind = "header" THEN Tail(file) ELSE file

\* C6 (the claim as stated): the artifact's body without the header is the
\* concatenation, in call order, of the payloads of the write calls, each
\* followed by the separator.
C6_RoundTrip ==
    Body(artifact) =
        Flatten([i \in DOMAIN payloads |-> <<ContentChunk(payloads[i]), Separator>>])

C8_UnknownToolContinues ==
    /\ last_call.tool_name \in UnknownTools =>
          /\ ~last_call.is_termination
          /\ last_call.result.success = FALSE
          /\ last_call.result.message.text = "Unknown tool: "
          /\ last_call.result.message.tool = last_call.tool_name
    /\ (pc = "blocks" /\ block_index > 1
          /\ content_blocks[block_index - 1].name \in UnknownTools) =>
          /\ tool_results # <<>>
          /\ Last(tool_results).tool_use_id = content_blocks[block_index - 1].id
          /\ Last(tool_results).content.text = "Unknown tool: "
          /\ Last(tool_results).content.tool = content_blocks[block_index - 1].name
    /\ \A i \in DOMAIN messages : \A k \in UnknownCallsOf(i) :
          IF i = Len(messages)
          THEN pc \in {"blocks", "done"}
          ELSE /\ messages[i + 1].role = "user"
               /\ \E j \in DOMAIN messages[i + 1].content :
                     /\ messages[i + 1].content[j].tool_use_id = messages[i].content[k].id
                     /\ messages[i + 1].content[j].content.text = "Unknown tool: "
                     /\ messages[i + 1].content[j].content.tool = messages[i].content[k].name
    /\ pc = "exhausted" => model_calls = MAX_ITERATIONS
    /\ (pc = "call" /\ model_calls > 0) => model_calls < MAX_ITERATIONS

\* C8 witness: the response before last called an unknown tool, its result is
\* in the transcript and the next model call is about to be made.
C8_Witness ==
    /\ pc = "call"
    /\ Len(messages) >= 3
    /\ UnknownCallsOf(Len(messages) - 1) # {}
    /\ Last(messages).role = "user"
    /\ Last(messages).content[1].content.tool \in UnknownTools
    /\ last_call.tool_name \in UnknownTools
    /\ record.status = "processing"

\* C9: the run "plan of 3 sections, write, write, write with the last-section
\* flag", one tool call per response and no exception, ends in the fourth
\* iteration after 4 model calls, with sections_written = 3 in the returned
\* result and in the record, and status "ready".
C9_PlanThreeWriteThree ==
    script = 4 =>
        \/ pc = "blocks" /\ block_index = 1
        \/ /\ pc = "done"
           /\ iteration = 4
           /\ model_calls = 4
           /\ returned.success
           /\ returned.sections_written = 3
           /\ returned.iterations = 4
           /\ record.sections_written = 3
           /\ record.total_sections = 3
           /\ record.status = "ready"
           /\ sections_written = 3

\* C9 witness: that run has ended.
C9_Witness ==
    /\ script = 4
    /\ pc = "done"
    /\ record.status = "ready"
    /\ record.sections_written = 3

\* C10: no model call is issued while the record has its pre-run status: when
\* a call is about to be made, and ever after the first call, the record has
\* been set to "processing" with a start timestamp.
C10_ProcessingBeforeFirstCall ==
    /\ pc = "call" => record.status = "processing" /\ record.started_at # "none"
    /\ model_calls > 0 =>
          /\ Len(status_log) >= 2
          /\ status_log[2] = "processing"
          /\ record.status # "queued"
          /\ record.started_at # "none"

\* C10 witness: the first model call has been issued, the record is processing.
C10_Witness ==
    /\ model_calls = 1
    /\ pc = "blocks"
    /\ record.status = "processing"
    /\ record.started_at = "now"

\* The ids of the tool_use blocks of turn i of the transcript, in block order.
ToolIds(i) ==
    LET calls == SelectSeq(messages[i].content, LAMBDA b : b.type = "tool_use")
    IN  [k \in DOMAIN calls |-> calls[k].id]

\* C11 (the claim as stated): the turns of the transcript alternate user,
\* assistant, user, ... starting with user, and every assistant turn with
\* tool_use blocks that is not the last turn is followed by a user turn with
\* one tool_result per tool_use id, in block order, whatever the provider
\* answers.
C11_TranscriptAlternates ==
    /\ \A i \in DOMAIN messages :
          messages[i].role = IF i % 2 = 1 THEN "user" ELSE "assistant"
    /\ \A i \in DOMAIN messages :
          (messages[i].role = "assistant" /\ ToolIds(i) # <<>> /\ i < Len(messages)) =>
              /\ messages[i + 1].role = "user"
              /\ [j \in DOMAIN messages[i + 1].content |->
                     messages[i + 1].content[j].tool_use_id] = ToolIds(i)

\* C12: when generate_marketing_strategy has returned a result, exactly one
\* execution trace was saved, and it holds the transcript as it stands and the
\* result that was returned; no trace is saved before that.
C12_TraceSavedOnce ==
    /\ HasReturned =>
          /\ pc = "done"
          /\ Len(executions) = 1
          /\ executions[1].messages = messages
          /\ executions[1].result = returned
    /\ ~HasReturned => executions = <<>>

\* C12 witness: the run returned the failure result of a finalization that
\* raised, and the trace holds it.
C12_Witness ==
    /\ HasReturned
    /\ last_call.fail = "finalize"
    /\ Len(executions) = 1
    /\ executions[1].result = returned
    /\ executions[1].result.success = FALSE
    /\ Len(executions[1].messages) >= 4

\* C13: when execute_tool signals terminal the run is over at once: its result
\* is returned, the inner loop stands at the terminal block (no later block is
\* executed), no model call follows, the tool results collected for this
\* response are not in the transcript, and no step is taken afterwards.
C13_TerminalStopsAtOnce ==
    /\ [](last_call.is_termination =>
            /\ pc = "done"
            /\ returned = last_call.result
            /\ model_calls = last_call.context.iterations
            /\ iteration = last_call.context.iterations
            /\ block_index <= Len(content_blocks)
            /\ content_blocks[block_index].name = last_call.tool_name
            /\ Len(tool_results) =
                  Cardinality({k \in 1..(block_index - 1) :
                                  content_blocks[k].type = "tool_use"})
            /\ Last(messages).role = "assistant"
            /\ Last(messages).content = serialize_content_blocks(content_blocks)
            /\ \A i \in 2..Len(messages) : messages[i].role = "user" =>
                  \A j \in DOMAIN messages[i].content :
                      messages[i].content[j].tool_use_id[1] < iteration)
    /\ [][pc # "done"]_vars

\* C13 witness: the second block of a response was terminal; the result of
\* the first block was collected and is not in the transcript.
C13_Witness ==
    /\ pc = "done"
    /\ last_call.is_termination
    /\ block_index = 2
    /\ Len(tool_results) = 1
    /\ Last(messages).role = "assistant"
    /\ returned = last_call.result

\* C14 (the claim as stated): the orchestrator's counter equals the number of
\* sections written to the artifact and the record's sections_written, also
\* after a write_marketing_section call whose file or record mutation raised.
C14_CounterIsCompletedUnits ==
    /\ sections_written = record.sections_written
    /\ sections_written =
          Cardinality({i \in DOMAIN artifact : artifact[i].kind = "content"})

\* C15: the orchestrator's counter never decreases, and it changes only in the
\* step that executes a write_marketing_section block, by one; a plan or
\* unknown-tool call leaves it as the call's context had it.
C15_CounterOnlyForWrites ==
    /\ [](last_call.tool_name \notin {WRITE_TOOL, "none"} =>
            sections_written = last_call.context.sections_written)
    /\ [][/\ sections_written' >= sections_written
          /\ sections_written' # sections_written =>
                /\ pc = "blocks"
                /\ block_index <= Len(content_blocks)
                /\ content_blocks[block_index].name = WRITE_TOOL
                /\ sections_written' = sections_written + 1]_vars

\* C15 witness: a plan call made after a section was written left the
\* counter alone.
C15_Witness ==
    /\ last_call.tool_name = PLAN_TOOL
    /\ last_call.context.sections_written >= 1
    /\ sections_written = last_call.context.sections_written

\* C16: when send_message raises, the exception leaves
\* generate_marketing_strategy: the step changes neither the record (status
\* stays "processing") nor the artifact, no trace is saved, no result is
\* returned, and the run takes no further step.
C16_ModelCallExceptionPropagates ==
    /\ [](pc = "raised" =>
            /\ record.status = "processing"
            /\ Last(status_log) = "processing"
            /\ executions = <<>>
            /\ ~HasReturned)
    /\ [][pc' = "raised" =>
            /\ pc = "call"
            /\ record' = record
            /\ artifact' = artifact
            /\ executions' = executions
            /\ returned' = returned]_vars
    /\ [][pc # "raised"]_vars

\* C16 witness: the model call raised in a later iteration, after a section
\* was written.
C16_Witness ==
    /\ pc = "raised"
    /\ model_calls >= 3
    /\ record.sections_written >= 1
    /\ record.status = "processing"
    /\ executions = <<>>

\* The usage of the model call that produced turn i of the transcript.
UsageOfCall(i) == Usage(SubSeq(messages, 1, i - 1), messages[i].content)

\* The sum of the usage of the model calls that produced turns 1..n.
RECURSIVE TotalUsage(_)
TotalUsage(n) ==
    IF n = 0 THEN [input_tokens |-> 0, output_tokens |-> 0]
    ELSE LET rest == TotalUsage(n - 1) IN
         IF messages[n].role = "assistant"
         THEN [input_tokens |-> rest.input_tokens + UsageOfCall(n).input_tokens,
               output_tokens |-> rest.output_tokens + UsageOfCall(n).output_tokens]
         ELSE rest

\* C17: the running token totals are the sums of the usage of the model calls
\* answered so far, and a returned result (terminal or max-iterations) carries
\* these totals and an iteration count equal to the number of model calls.
C17_TokenTotals ==
    /\ total_input_tokens = TotalUsage(Len(messages)).input_tokens
    /\ total_output_tokens = TotalUsage(Len(messages)).output_tokens
    /\ HasReturned =>
          /\ returned.usage = [input_tokens |-> total_input_tokens,
                               output_tokens |-> total_output_tokens]
          /\ returned.iterations = model_calls

\* C17 witness: a run returned its terminal result after three model calls.
C17_Witness ==
    /\ HasReturned
    /\ returned.success
    /\ returned.iterations = 3
    /\ model_calls = 3
    /\ returned.usage.input_tokens = total_input_tokens
    /\ total_input_tokens > 0
    /\ total_output_tokens > 0

\* C18: the step that executes a plan_marketing_strategy block is
\* non-terminal with success = true, stores the planned sections and
\* total_sections = their number in the record, and leaves the record's
\* status, sections_written and current_section, the artifact and the
\* orchestrator's counter as they were, wherever in the run it happens.
C18_PlanOnlyStoresPlan ==
    [][(/\ pc = "blocks"
        /\ block_index <= Len(content_blocks)
        /\ content_blocks[block_index].name = PLAN_TOOL) =>
          /\ pc' = "blocks"
          /\ returned' = returned
          /\ last_call'.tool_name = PLAN_TOOL
          /\ ~last_call'.is_termination
          /\ last_call'.result.success
          /\ record'.planned_sections = content_blocks[block_index].input.sections
          /\ record'.total_sections = Len(content_blocks[block_index].input.sections)
          /\ record'.status = record.status
          /\ record'.sections_written = record.sections_written
          /\ record'.current_section = record.current_section
          /\ record'.markdown_file = record.markdown_file
          /\ artifact' = artifact
          /\ sections_written' = sections_written]_vars

\* C18 witness: a plan of three sections was stored after a section had been
\* written.
C18_Witness ==
    /\ last_call.tool_name = PLAN_TOOL
    /\ last_call.context.sections_written >= 1
    /\ record.total_sections = 3
    /\ Len(record.planned_sections) = 3
    /\ record.sections_written >= 1
    /\ record.status = "processing"
    /\ artifact # <<>>

\* C20: when generate_marketing_strategy has returned a result, the record's
\* status is "ready" or "error", and the result has success = true exactly
\* when the status is "ready".
C20_ReturnMatchesStatus ==
    HasReturned =>
        /\ record.status \in {"ready", "error"}
        /\ returned.success <=> record.status = "ready"

\* C20 witness: the run returned the failure result of a finalization that
\* raised in a later iteration, and the record says "error".
C20_Witness ==
    /\ HasReturned
    /\ ~returned.success
    /\ last_call.is_termination
    /\ model_calls >= 2
    /\ record.status = "error"

\* The run for job j alone in the process, after n steps: its local
\* variables, its record, its file and the cache.
RECURSIVE SoloAfter(_, _, _)
SoloAfter(j, moves, n) ==
    IF n = 0
    THEN [loc |-> InitialRun(moves), rec |-> QueuedJob, file |-> <<>>, cfg |-> NoConfig]
    ELSE LET before == SoloAfter(j, moves, n - 1)
         IN  StepRun(j, before.loc, before.rec, before.file, before.cfg)

SectionResults ==
    LET turns == [i \in 1..(Len(messages) - 1) |->
                    IF messages[i + 1].role = "user" THEN messages[i + 1].content
                    ELSE <<>>]
    IN  SelectSeq(Flatten(turns) \o tool_results,
                  LAMBDA r : r.content.kind \in {"section_written", "section_error"})

\* C21: every write_marketing_section call gets the next section number: the
\* numbers told back for the calls of a run are 1, 2, 3, ... in call order
\* (so the blocks of one response get distinct, consecutive numbers in block
\* order and no two calls record the same number), and the number of the call
\* just made is the one its rebuilt context gives.
C21_DistinctConsecutiveNumbers ==
    /\ \A k \in DOMAIN SectionResults : SectionResults[k].content.section = k
    /\ (last_call.tool_name = WRITE_TOOL /\ ~last_call.is_termination) =>
          last_call.context.sections_written + 1 = Len(SectionResults)
    /\ (last_call.tool_name = WRITE_TOOL /\ last_call.is_termination) =>
          last_call.context.sections_written = Len(SectionResults)
    /\ (last_call.tool_name = WRITE_TOOL /\ last_call.fail = "none") =>
          record.sections_written = last_call.context.sections_written + 1

\* C21 witness: the first response of a run carried two
\* write_marketing_section blocks, both claiming section 5; they were numbered
\* 1 and 2 in block order.
C21_Witness ==
    /\ pc = "blocks"
    /\ model_calls = 1
    /\ Len(content_blocks) = 2
    /\ block_index = 3
    /\ \A k \in {1, 2} : /\ content_blocks[k].name = WRITE_TOOL
                         /\ content_blocks[k].input.section_number = 5
    /\ Len(tool_results) = 2
    /\ tool_results[1].tool_use_id = content_blocks[1].id
    /\ tool_results[1].content.section = 1
    /\ tool_results[2].tool_use_id = content_blocks[2].id
    /\ tool_results[2].content.section = 2
    /\ record.sections_written = 2

\* C22 (the claim as stated): a write_marketing_section call without the
\* last-section flag made when the planned total is known is non-terminal and
\* its message gives remaining = total_sections - section number, which is
\* never negative: once a plan is recorded the record's sections_written does
\* not exceed total_sections.
C22_RemainingNeverNegative ==
    /\ (/\ last_call.tool_name = WRITE_TOOL
        /\ ~last_call.is_last_section
        /\ last_call.fail = "none"
        /\ last_call.result.message.total > 0) =>
          /\ ~last_call.is_termination
          /\ last_call.result.message.progress
          /\ last_call.result.message.remaining =
                last_call.result.message.total - last_call.result.message.section
          /\ last_call.result.message.remaining >= 0
    /\ record.total_sections > 0 => record.sections_written <= record.total_sections

\* C23: in the component executor a write_component_code call is reported
\* terminal whether it succeeded or raised, and leaves the record "ready"
\* exactly when its result has success = true and "error" exactly when it has
\* success = false; plan_components and unknown-tool calls are non-terminal
\* and leave the status as it was.
C23_ComponentWriteIsTerminal ==
    /\ comp.last_call.tool_name = TERMINATION_TOOL =>
          /\ comp.last_call.is_termination
          /\ comp.pc = "done"
          /\ comp.record.status \in {"ready", "error"}
          /\ comp.last_call.result.success <=> comp.record.status = "ready"
          /\ ~comp.last_call.result.success <=> comp.record.status = "error"
          /\ comp.last_call.result.success <=> comp.last_call.fail = NoFailure
          /\ Len(comp.status_log) = 2
    /\ comp.last_call.tool_name \in {PLAN_COMPONENTS} \cup UnknownTools =>
          /\ ~comp.last_call.is_termination
          /\ comp.pc = "running"
          /\ comp.last_call.result.success <=> comp.last_call.tool_name = PLAN_COMPONENTS
    /\ comp.pc = "running" =>
          /\ comp.record.status = "processing"
          /\ comp.status_log = <<"processing">>

\* C23 witness: after a plan, write_component_code raised at the second file:
\* the first file is there, the call is terminal, success is false and the
\* record says "error".
C23_Witness ==
    /\ comp.last_call.tool_name = TERMINATION_TOOL
    /\ comp.last_call.fail = [at |-> "open", idx |-> 2]
    /\ comp.last_call.is_termination
    /\ ~comp.last_call.result.success
    /\ comp.record.status = "error"
    /\ comp.record.variations_planned # <<>>
    /\ Cardinality(comp.dir) = 1

\* C24: generate_wireframe marks the job "processing" first; whatever fails
\* afterwards it returns a result, and when it has returned the job is
\* "ready" exactly if success is true and "error" exactly if success is
\* false; the status goes queued, processing, then ready or error, never both,
\* and the job is not left "processing".
C24_WireframeAlwaysSettles ==
    /\ [](/\ wf.status_log \in {<<"queued">>, <<"queued", "processing">>,
                                <<"queued", "processing", "ready">>,
                                <<"queued", "processing", "error">>}
          /\ wf.record.status = Last(wf.status_log)
          /\ wf.pc \notin {"idle", "done"} =>
                wf.record.status = "processing" /\ wf.returned = NoResult
          /\ wf.pc = "done" =>
                /\ "success" \in DOMAIN wf.returned
                /\ wf.record.status \in {"ready", "error"}
                /\ wf.returned.success <=> wf.record.status = "ready"
                /\ ~wf.returned.success <=> wf.record.status = "error")
    /\ <>(wf.pc = "done")

\* C24 witness: the model answered without the elements key; the run returned
\* the failure and the job says "error".
C24_Witness ==
    /\ wf.pc = "done"
    /\ wf.content = "page text"
    /\ wf.returned.success = FALSE
    /\ wf.returned.error = "Failed to generate wireframe - no elements returned"
    /\ wf.record.status = "error"
    /\ wf.status_log = <<"queued", "processing", "error">>

====
